---- MODULE Spec2Model ----
(***************************************************************************)
(* Model of nvflare/app_common/storages/filesystem_storage.py:             *)
(* FilesystemStorage over a small directory tree, with every filesystem    *)
(* call of an operation as one step, so that crashes, I/O failures and     *)
(* concurrent callers can interleave between the calls.                    *)
(*                                                                         *)
(* Text (paths, URIs, the meta document) is a sequence of one-character    *)
(* strings. Directory names are single characters. A file name inside a    *)
(* directory is a tuple: <<"data">>, <<"meta">>, a tag <<"done">>, and     *)
(* the temporary names path + "_" + uuid as <<"data", u>>, <<"meta", u>>   *)
(* and <<"data", u, v>> (the _write of create_object's temporary data).    *)
(***************************************************************************)
EXTENDS Integers, Sequences, FiniteSets, TLC

(* ----------------------------------------------------------------------- *)
(* Bounds                                                                  *)
(* ----------------------------------------------------------------------- *)
\* crashes and injected I/O failures in one behaviour
MaxFaults == 1
\* callers that only read, beside the one caller that writes
NumReaders == 1

\* the longest URI and the longest URI root a path is resolved for
MaxUriLen == 4
MaxRootLen == 2
\* the most trees the global XGBoost model grows to
MaxTrees == 3

Readers == 1..NumReaders
Writer == NumReaders + 1
Procs == {Writer} \cup Readers

(* ----------------------------------------------------------------------- *)
(* Text helpers                                                            *)
(* ----------------------------------------------------------------------- *)
Chars(s) == {s[i] : i \in 1..Len(s)}

RECURSIVE LStrip(_, _)
\* str.lstrip(chars): drops every leading character that is in the SET chars
LStrip(s, chars) ==
    IF s # <<>> /\ Head(s) \in chars THEN LStrip(Tail(s), chars) ELSE s

RECURSIVE NormPath(_)
\* the directory a path names: repeated and trailing separators do not count
NormPath(s) ==
    IF s = <<>> THEN <<>>
    ELSE IF Head(s) = "/" /\ (Len(s) = 1 \/ s[2] = "/") THEN
        (IF Len(s) = 1 THEN <<>> ELSE NormPath(Tail(s)))
    ELSE <<Head(s)>> \o NormPath(Tail(s))

\* os.path.join(a, b)
PathJoin(a, b) ==
    IF b # <<>> /\ Head(b) = "/" THEN b
    ELSE IF a = <<>> \/ a[Len(a)] = "/" THEN a \o b
    ELSE a \o <<"/">> \o b

\* os.path.dirname of a normalised path
RECURSIVE DirName(_)
DirName(s) ==
    IF s = <<>> THEN <<>>
    ELSE IF s[Len(s)] = "/" THEN SubSeq(s, 1, Len(s) - 1)
    ELSE DirName(SubSeq(s, 1, Len(s) - 1))

\* is directory d inside the subtree of directory top (top included)
InSubtree(d, top) ==
    /\ Len(d) >= Len(top)
    /\ SubSeq(d, 1, Len(top)) = top
    /\ (Len(d) = Len(top) \/ d[Len(top) + 1] = "/")

(* ----------------------------------------------------------------------- *)
(* Metadata codec                                                          *)
(* A meta is a function from keys (texts) to values [t, v]: t = "s" a      *)
(* string with text v, t = "n" an integer with digits v, t = "b" a         *)
(* boolean, v its Python name.                                             *)
(* ----------------------------------------------------------------------- *)
KeyOrder == << <<"a">>, <<"b">>, <<"k">> >>

StrVal(s) == [t |-> "s", v |-> s]
NumVal(s) == [t |-> "n", v |-> s]
PyTrue == <<"T", "r", "u", "e">>
PyFalse == <<"F", "a", "l", "s", "e">>
BoolVal(b) == [t |-> "b", v |-> IF b THEN PyTrue ELSE PyFalse]
\* how JSON writes the boolean that Python writes as v
JsonBool(v) == IF v = PyTrue THEN <<"t", "r", "u", "e">> ELSE <<"f", "a", "l", "s", "e">>

Digits == {"0", "1", "2", "3", "4", "5", "6", "7", "8", "9"}
DQ == "\""
BS == "\\"

RECURSIVE JsonEscape(_)
\* json.dumps escapes the quote and the backslash inside a string
JsonEscape(s) ==
    IF s = <<>> THEN <<>>
    ELSE (IF Head(s) \in {DQ, BS} THEN <<BS, Head(s)>> ELSE <<Head(s)>>)
         \o JsonEscape(Tail(s))

JsonStr(s) == <<DQ>> \o JsonEscape(s) \o <<DQ>>

\* faulty variant: every value is written as a string
JsonValueQuoted(x) == JsonStr(x.v)

JsonValue(x) ==
    IF x.t = "s" THEN JsonStr(x.v) ELSE IF x.t = "b" THEN JsonBool(x.v) ELSE x.v

RECURSIVE JsonPairs(_, _, _)
JsonPairs(m, i, first) ==
    IF i > Len(KeyOrder) THEN <<>>
    ELSE IF KeyOrder[i] \in DOMAIN m THEN
        (IF first THEN <<>> ELSE <<",", " ">>)
        \o JsonStr(KeyOrder[i]) \o <<":", " ">> \o JsonValue(m[KeyOrder[i]])
        \o JsonPairs(m, i + 1, FALSE)
    ELSE JsonPairs(m, i + 1, first)

\* json.dumps(meta)
JsonDumps(m) == <<"{">> \o JsonPairs(m, 1, TRUE) \o <<"}">>

\* _encode_meta: json.dumps(meta).encode("utf-8")
EncodeMeta(m) == JsonDumps(m)

EmptyMeta == [k \in {} |-> StrVal(<<>>)]
BadParse == [ok |-> FALSE, val |-> EmptyMeta, rest |-> <<>>]

RECURSIVE SkipWs(_)
SkipWs(s) == IF s # <<>> /\ Head(s) = " " THEN SkipWs(Tail(s)) ELSE s

RECURSIVE ScanStr(_, _, _)
\* the text of a string literal up to its closing quote q; a backslash takes
\* the next character literally. [ok, val, rest]
ScanStr(s, q, acc) ==
    IF s = <<>> THEN [ok |-> FALSE, val |-> acc, rest |-> <<>>]
    ELSE IF Head(s) = q THEN [ok |-> TRUE, val |-> acc, rest |-> Tail(s)]
    ELSE IF Head(s) = BS THEN
        (IF Len(s) < 2 THEN [ok |-> FALSE, val |-> acc, rest |-> <<>>]
         ELSE ScanStr(Tail(Tail(s)), q, Append(acc, s[2])))
    ELSE ScanStr(Tail(s), q, Append(acc, Head(s)))

RECURSIVE ScanNum(_, _)
ScanNum(s, acc) ==
    IF s # <<>> /\ Head(s) \in Digits THEN ScanNum(Tail(s), Append(acc, Head(s)))
    ELSE [ok |-> acc # <<>>, val |-> acc, rest |-> s]

HasPrefix(s, t) == Len(s) >= Len(t) /\ SubSeq(s, 1, Len(t)) = t

\* one value: a string in one of the quotes of qs, a boolean (as JSON writes
\* it for json.loads, as Python writes it for ast.literal_eval), or a number
ParseValue(s, qs) ==
    IF s = <<>> THEN [ok |-> FALSE, val |-> StrVal(<<>>), rest |-> <<>>]
    ELSE IF Head(s) \in qs THEN
        LET r == ScanStr(Tail(s), Head(s), <<>>)
        IN [ok |-> r.ok, val |-> StrVal(r.val), rest |-> r.rest]
    ELSE IF \E b \in BOOLEAN :
               HasPrefix(s, IF "'" \in qs THEN BoolVal(b).v ELSE JsonBool(BoolVal(b).v)) THEN
        LET b == CHOOSE b \in BOOLEAN :
                   HasPrefix(s, IF "'" \in qs THEN BoolVal(b).v ELSE JsonBool(BoolVal(b).v))
            t == IF "'" \in qs THEN BoolVal(b).v ELSE JsonBool(BoolVal(b).v)
        IN [ok |-> TRUE, val |-> BoolVal(b), rest |-> SubSeq(s, Len(t) + 1, Len(s))]
    ELSE LET r == ScanNum(s, <<>>)
         IN [ok |-> r.ok, val |-> NumVal(r.val), rest |-> r.rest]

RECURSIVE ParsePairs(_, _, _)
\* the pairs of a mapping after "{" : key ":" value, separated by ","
ParsePairs(s0, qs, acc) ==
    LET s == SkipWs(s0) IN
    IF s = <<>> \/ ~(Head(s) \in qs) THEN BadParse
    ELSE
        LET k == ScanStr(Tail(s), Head(s), <<>>)
            s1 == SkipWs(k.rest)
        IN IF ~k.ok \/ s1 = <<>> \/ Head(s1) # ":" THEN BadParse
           ELSE
             LET v == ParseValue(SkipWs(Tail(s1)), qs)
                 s2 == SkipWs(v.rest)
                 acc2 == [x \in DOMAIN acc \cup {k.val} |->
                             IF x = k.val THEN v.val ELSE acc[x]]
             IN IF ~v.ok \/ s2 = <<>> THEN BadParse
                ELSE IF Head(s2) = "}" THEN
                    [ok |-> TRUE, val |-> acc2, rest |-> Tail(s2)]
                ELSE IF Head(s2) = "," THEN ParsePairs(Tail(s2), qs, acc2)
                ELSE BadParse

\* a whole document that is one mapping, strings quoted by a quote of qs
ParseDict(s0, qs) ==
    LET s == SkipWs(s0) IN
    IF s = <<>> \/ Head(s) # "{" THEN BadParse
    ELSE LET b == SkipWs(Tail(s))
             r == IF b # <<>> /\ Head(b) = "}"
                  THEN [ok |-> TRUE, val |-> EmptyMeta, rest |-> Tail(b)]
                  ELSE ParsePairs(b, qs, EmptyMeta)
         IN IF r.ok /\ SkipWs(r.rest) = <<>> THEN r ELSE BadParse

\* json.loads of a document that is one string: its text
JsonLoadsStr(s) ==
    IF s = <<>> \/ Head(s) # DQ THEN [ok |-> FALSE, val |-> <<>>, rest |-> <<>>]
    ELSE LET r == ScanStr(Tail(s), DQ, <<>>)
         IN [ok |-> r.ok /\ SkipWs(r.rest) = <<>>, val |-> r.val, rest |-> <<>>]

\* the branch _decode_meta takes for the text s (line 69)
DecodePath(s) == IF s # <<>> /\ Head(s) = DQ THEN "legacy" ELSE "direct"

\* faulty variant: the old format is not looked for
DecodeMetaDirectOnly(s) == ParseDict(s, {DQ})

\* _decode_meta: [ok, val]; ok = FALSE is the decoder raising
DecodeMeta(s) ==
    IF DecodePath(s) = "legacy" THEN
        \* old format: ast.literal_eval(json.loads(s))
        LET t == JsonLoadsStr(s)
        IN IF t.ok THEN ParseDict(t.val, {"'", DQ}) ELSE BadParse
    ELSE
        \* json.loads(s)
        ParseDict(s, {DQ})

RECURSIVE PyEscape(_, _)
\* the body of repr(s) between quotes q: the backslash and q are escaped
PyEscape(s, q) ==
    IF s = <<>> THEN <<>>
    ELSE (IF Head(s) \in {BS, q} THEN <<BS, Head(s)>> ELSE <<Head(s)>>)
         \o PyEscape(Tail(s), q)

\* repr(s) of a str: in double quotes when s has a single quote and no
\* double quote, else in single quotes
PyReprStr(s) ==
    LET q == IF "'" \in Chars(s) /\ DQ \notin Chars(s) THEN DQ ELSE "'"
    IN <<q>> \o PyEscape(s, q) \o <<q>>

RECURSIVE PyReprPairs(_, _, _)
PyReprPairs(m, i, first) ==
    IF i > Len(KeyOrder) THEN <<>>
    ELSE IF KeyOrder[i] \in DOMAIN m THEN
        (IF first THEN <<>> ELSE <<",", " ">>)
        \o PyReprStr(KeyOrder[i]) \o <<":", " ">>
        \o (IF m[KeyOrder[i]].t = "s" THEN PyReprStr(m[KeyOrder[i]].v) ELSE m[KeyOrder[i]].v)
        \o PyReprPairs(m, i + 1, FALSE)
    ELSE PyReprPairs(m, i + 1, first)

\* the old format of a meta: json.dumps(str(meta)), the text that
\* ast.literal_eval(json.loads(s)) of _decode_meta reads back
LegacyEncode(m) == JsonStr(<<"{">> \o PyReprPairs(m, 1, TRUE) \o <<"}">>)

\* the values of the metas the codec is applied to
CodecVals ==
    {NumVal(<<"1">>), StrVal(<<"v">>), StrVal(<<"'">>), StrVal(<<DQ>>),
     StrVal(<<"'", DQ>>), StrVal(<<BS>>), BoolVal(TRUE)}

\* every meta over the keys of KeyOrder with values of CodecVals
CodecMetas ==
    UNION {[K -> CodecVals] : K \in SUBSET {KeyOrder[i] : i \in 1..Len(KeyOrder)}}

(* ----------------------------------------------------------------------- *)
(* The store: FilesystemStorage(root_dir = "/r", uri_root = "/")            *)
(* ----------------------------------------------------------------------- *)
root_dir == <<"/", "r">>
uri_root == <<"/">>

DirP == <<"/", "r", "/", "p">>
DirPX == <<"/", "r", "/", "p", "/", "x">>
\* the directories of the model's filesystem
Dirs == {root_dir, DirP, DirPX}

\* the URIs callers pass: they resolve to DirP and DirPX
UriP == <<"/", "p">>
UriPX == <<"p", "/", "x">>
Uris == {UriP, UriPX}
\* the paths callers list
ListPaths == { <<"/">>, <<"/", "p">>, <<"/", "p", "/", "x">> }

DataA == <<"x", "1">>
DataB == <<"y", "2">>
Datas == {DataA, DataB}

MetaA == (<<"a">> :> NumVal(<<"1">>))
MetaB == (<<"b">> :> StrVal(<<"v">>))
Metas == {MetaA, MetaB}

TagNames == { <<"done">> }
\* tag names that are the names of the files of an object
ObjectFileNames == { <<"data">>, <<"meta">> }
TagDatas == { <<>>, <<"t">> }
NoTag == <<>>

\* uuid4 values: compared for equality only, so a call takes the least one
\* that no file and no running call uses
Uuids == 1..(MaxFaults + 1)

NoFiles == [n \in {} |-> <<>>]

\* what the object at UriP holds when the callers of the concurrent
\* specifications start
DataO == <<"o">>
MetaO == (<<"k">> :> StrVal(<<"o">>))
\* a meta that sets the key of MetaO to another value
MetaK == (<<"k">> :> NumVal(<<"2">>))

VARIABLES
    fs,       \* directory -> [isdir, files: name -> content]
    pc,       \* caller -> the statement it is about to execute
    loc,      \* caller -> arguments and local variables of its call
    last,     \* caller -> how its last call ended (history)
    faults,   \* crashes and injected I/O failures so far
    arg,      \* the arguments a function of the module is applied to
    res,      \* what the function returned for arg
    gen,      \* the XGBModelShareableGenerator object and its last call
    run       \* the server runner process: its position, its objects, its end

vars == <<fs, pc, loc, last, faults, arg, res, gen, run>>

\* the variables of the storage
storeVars == <<fs, pc, loc, last, faults>>

\* Python's None; every value of the generator is a record with its type
NoneVal == [type |-> "None"]

\* _object_path of a storage with root directory root and URI root uroot
ObjectPathOf(root, uroot, uri) == PathJoin(root, LStrip(uri, Chars(uroot)))

\* full_uri of delete_object, line 293
FullUriOf(root, uroot, uri) == PathJoin(root, LStrip(uri, Chars(uroot)))

\* _object_path / delete_object line 293, as the directory it names
ObjectPath(uri) == NormPath(ObjectPathOf(root_dir, uri_root, uri))

IsDir(f, d) == d \in Dirs /\ f[d].isdir
IsFile(f, d, n) == IsDir(f, d) /\ n \in DOMAIN f[d].files
SubDirs(f, d) == {c \in Dirs : f[c].isdir /\ c # d /\ DirName(c) = d}
\* os.path.exists(os.path.join(d, n)): a file of d, or a sub-directory of d
PathExists(f, d, n) ==
    IsFile(f, d, n) \/ (Len(n) = 1 /\ IsDir(f, d \o <<"/">> \o n))
\* os.listdir(d) is not empty
ListDirNonEmpty(f, d) == DOMAIN f[d].files # {} \/ SubDirs(f, d) # {}

\* faulty variant: the meta file is not looked at
ObjectExistsDataOnly(f, d) ==
    /\ IsDir(f, d)
    /\ IsFile(f, d, <<"data">>)

\* _object_exists (the path is absolute: root_dir is)
ObjectExists(f, d) ==
    /\ IsDir(f, d)
    /\ IsFile(f, d, <<"data">>)
    /\ IsFile(f, d, <<"meta">>)

\* Path(...).mkdir(parents=True, exist_ok=True)
MkdirParents(f, d) ==
    [c \in Dirs |-> IF InSubtree(d, c) /\ ~f[c].isdir
                    THEN [isdir |-> TRUE, files |-> NoFiles] ELSE f[c]]

PutFile(f, d, n, content) ==
    [f EXCEPT ![d].files =
        [x \in DOMAIN f[d].files \cup {n} |-> IF x = n THEN content ELSE f[d].files[x]]]

RemoveFile(f, d, n) ==
    [f EXCEPT ![d].files = [x \in DOMAIN f[d].files \ {n} |-> f[d].files[x]]]

\* os.rename(d/a, d/b), a exists
RenameFile(f, d, a, b) == RemoveFile(PutFile(f, d, b, f[d].files[a]), d, a)

\* _read: [ok, val]
ReadFile(f, d, n) ==
    IF IsFile(f, d, n) THEN [ok |-> TRUE, val |-> f[d].files[n]]
    ELSE [ok |-> FALSE, val |-> <<>>]

\* what get_data and get_meta return in filesystem f, when the object exists
DataOf(f, d) == f[d].files[<<"data">>]
MetaOf(f, d) == DecodeMeta(f[d].files[<<"meta">>])

\* the temporary files in directory d: every name with a uuid
TempFiles(f, d) == {n \in DOMAIN f[d].files : Len(n) > 1}

NoCall ==
    [op |-> "none", uri |-> <<>>, dir |-> <<>>, data |-> <<>>, meta |-> EmptyMeta,
     flag |-> FALSE, tag |-> NoTag, tmpd |-> 0, wname |-> <<>>, wtmp |-> <<>>,
     wcontent |-> <<>>, wctx |-> "none", wold |-> [ok |-> FALSE, val |-> <<>>], stack |-> <<>>, ents |-> {}, acc |-> {},
     rmeta |-> EmptyMeta, rdata |-> <<>>, pre |-> <<>>, afterCrash |-> FALSE]

NoLast == [outcome |-> "none", at |-> "none", call |-> NoCall]

MinOf(S) == CHOOSE x \in S : \A y \in S : x <= y

\* names with a uuid that a running call has chosen
Reserved == UNION {{loc[q].wtmp, <<"data", loc[q].tmpd>>} : q \in Procs}
FreeUuids(d, base) ==
    {u \in Uuids : ~IsFile(fs, d, Append(base, u)) /\ Append(base, u) \notin Reserved}
\* faulty variant: every temporary file of a path has the same suffix
Uuid4Fixed(d, base) == MinOf(Uuids)

\* str(uuid.uuid4())
Uuid4(d, base) == MinOf(FreeUuids(d, base))

\* FilesystemStorage.__init__ on an empty root directory
EmptyStore == [d \in Dirs |-> [isdir |-> d = root_dir, files |-> NoFiles]]

\* the storage over filesystem f, no call running
StoreInit(f) ==
    /\ fs = f
    /\ pc = [p \in Procs |-> "idle"]
    /\ loc = [p \in Procs |-> NoCall]
    /\ last = [p \in Procs |-> NoLast]
    /\ faults = 0

\* XGBModelShareableGenerator.__init__: self.shareable = None. ctx is the
\* GLOBAL_MODEL property of the FLContext the generator is called with; op,
\* input, ret, outcome, before (self.shareable at the call) and saved (what
\* the last shareable_to_learnable that went through saved) are history.
NewGen == [shareable |-> NoneVal, ctx |-> NoneVal, op |-> "none", input |-> NoneVal,
           ret |-> NoneVal, outcome |-> "none", before |-> NoneVal, saved |-> NoneVal]

\* the result of a function: not applied yet, or val
NotYet == [done |-> FALSE, val |-> <<>>]
Returned(v) == [done |-> TRUE, val |-> v]

\* no runner process
NoRun == [pc |-> "none"]

\* no function is being applied
NoFunction == arg = NoneVal /\ res = NoneVal /\ run = NoRun

\* the store after create_object(UriP, DataO, MetaO) on the empty store
ObjStore ==
    [EmptyStore EXCEPT ![DirP] =
        [isdir |-> TRUE,
         files |-> (<<"data">> :> DataO) @@ (<<"meta">> :> EncodeMeta(MetaO))]]

Init ==
    /\ StoreInit(EmptyStore)
    /\ NoFunction
    /\ gen = NewGen

\* the store with the object at UriP in it
InitObj ==
    /\ StoreInit(ObjStore)
    /\ NoFunction
    /\ gen = NewGen

\* the last call of p was a create_object in directory d, where no object
\* was, stopped between the meta commit (line 132) and the data rename
\* (line 136)
StoppedBeforeDataRename(p, d) ==
    /\ last[p].outcome = "crashed"
    /\ last[p].at = "c_rename"
    /\ last[p].call.dir = d
    /\ ~ObjectExists(last[p].call.pre, d)

\* the locals of a call of p that starts now; pre and afterCrash are history
Call(p, op, uri) ==
    [NoCall EXCEPT !.op = op, !.uri = uri, !.dir = ObjectPath(uri), !.pre = fs,
                   !.afterCrash = StoppedBeforeDataRename(p, ObjectPath(uri))]

\* the call of p, with locals c, returns or raises: outcome. The history
\* keeps the arguments, the results and the store as the call found it.
EndWith(p, c, outcome) ==
    /\ pc' = [pc EXCEPT ![p] = "idle"]
    /\ loc' = [loc EXCEPT ![p] = NoCall]
    /\ last' = [last EXCEPT ![p] =
                  [outcome |-> outcome, at |-> pc[p],
                   call |-> [c EXCEPT !.stack = <<>>, !.ents = {}]]]
    /\ UNCHANGED <<arg, res, gen, run>>

\* p goes on to statement l with locals c
Goto(p, c, l) ==
    /\ pc' = [pc EXCEPT ![p] = l]
    /\ loc' = [loc EXCEPT ![p] = c]
    /\ UNCHANGED <<last, arg, res, gen, run>>

\* p starts a call with locals c and goes on to statement l
Start(p, c, l) ==
    /\ pc' = [pc EXCEPT ![p] = l]
    /\ loc' = [loc EXCEPT ![p] = c]
    /\ last' = [last EXCEPT ![p] = NoLast]
    /\ UNCHANGED <<arg, res, gen, run>>

\* an I/O failure is injected (a crash is counted the same way)
CanFail == faults < MaxFaults
Fault == faults' = faults + 1

(* ----------------------------------------------------------------------- *)
(* _write(path, content), lines 28-42. The caller sets wname (the file     *)
(* name of path), wcontent and wctx (who called) and goes to "w_mkdir".    *)
(* ----------------------------------------------------------------------- *)
\* f is the filesystem at the call of _write; wold keeps what path held then
EnterWrite(c, name, content, ctx, f) ==
    [c EXCEPT !.wname = name, !.wcontent = content, !.wctx = ctx, !.wtmp = <<>>,
              !.wold = ReadFile(f, c.dir, name)]

\* _write raised in the call with locals c, in filesystem f: what the
\* caller does with the exception (create_object lines 133-135: the
\* temporary data is removed before the exception goes on)
WriteRaised(p, c, f) ==
    /\ fs' = IF c.wctx = "c_meta" /\ IsFile(f, c.dir, <<"data", c.tmpd>>)
             THEN RemoveFile(f, c.dir, <<"data", c.tmpd>>) ELSE f
    /\ EndWith(p, c, "IOFailure")

\* _write returned in the call with locals c, in filesystem f
WriteReturned(p, c, f) ==
    IF c.wctx = "c_data" THEN
        \* line 132
        Goto(p, EnterWrite(c, <<"meta">>, EncodeMeta(c.meta), "c_meta", f), "w_mkdir")
    ELSE IF c.wctx = "c_meta" THEN Goto(p, c, "c_rename")
    ELSE EndWith(p, c, "ok")

\* lines 29-31: the temporary name, and the parent directory
WMkdir(p) ==
    /\ pc[p] = "w_mkdir"
    /\ FreeUuids(loc[p].dir, loc[p].wname) # {}
    /\ LET c == [loc[p] EXCEPT
                    !.wtmp = Append(loc[p].wname, Uuid4(loc[p].dir, loc[p].wname))]
       IN /\ fs' = MkdirParents(fs, c.dir)
          /\ Goto(p, c, "w_open")
    /\ UNCHANGED faults

\* faulty variant: the path itself is opened, not the temporary file
WOpenInPlace(p) ==
    /\ pc[p] = "w_open"
    /\ IF IsDir(fs, loc[p].dir)
       THEN /\ fs' = PutFile(fs, loc[p].dir, loc[p].wname, <<>>)
            /\ Goto(p, loc[p], "w_write")
       ELSE WriteRaised(p, loc[p], fs)
    /\ UNCHANGED faults

\* line 32: open(tmp_path, "wb") creates the empty file; it raises when the
\* directory is gone
WOpen(p) ==
    /\ pc[p] = "w_open"
    /\ IF IsDir(fs, loc[p].dir)
       THEN /\ fs' = PutFile(fs, loc[p].dir, loc[p].wtmp, <<>>)
            /\ Goto(p, loc[p], "w_write")
       ELSE WriteRaised(p, loc[p], fs)
    /\ UNCHANGED faults

\* lines 33-35: the content is written, flushed and synced
WWrite(p) ==
    /\ pc[p] = "w_write"
    /\ IF IsFile(fs, loc[p].dir, loc[p].wtmp)
       THEN fs' = PutFile(fs, loc[p].dir, loc[p].wtmp, loc[p].wcontent)
       ELSE fs' = fs
    /\ Goto(p, loc[p], "w_rename")
    /\ UNCHANGED faults

\* faulty variant: the temporary file is left behind
WFailNoCleanup(p) ==
    /\ pc[p] \in {"w_mkdir", "w_open", "w_write"}
    /\ CanFail /\ Fault
    /\ WriteRaised(p, loc[p], fs)

\* lines 36-39: mkdir, open, write, flush or fsync raises: the temporary
\* file is removed when it is there, and StorageException is raised
WFail(p) ==
    /\ pc[p] \in {"w_mkdir", "w_open", "w_write"}
    /\ CanFail /\ Fault
    /\ LET c == loc[p]
           f == IF c.wtmp # <<>> /\ IsFile(fs, c.dir, c.wtmp)
                THEN RemoveFile(fs, c.dir, c.wtmp) ELSE fs
       IN WriteRaised(p, c, f)

\* lines 41-42: the temporary file is renamed onto the path, when it exists
WRename(p) ==
    /\ pc[p] = "w_rename"
    /\ LET f == IF IsFile(fs, loc[p].dir, loc[p].wtmp)
                THEN RenameFile(fs, loc[p].dir, loc[p].wtmp, loc[p].wname) ELSE fs
       IN /\ fs' = f
          /\ WriteReturned(p, loc[p], f)
    /\ UNCHANGED faults

\* line 42: os.rename raises; nothing in _write handles it
WRenameFail(p) ==
    /\ pc[p] = "w_rename"
    /\ IsFile(fs, loc[p].dir, loc[p].wtmp)
    /\ CanFail /\ Fault
    /\ WriteRaised(p, loc[p], fs)

(* ----------------------------------------------------------------------- *)
(* create_object, lines 100-138                                            *)
(* ----------------------------------------------------------------------- *)
\* faulty variant: an existing object is overwritten whatever overwrite_existing is
CreateObjectNoGuard(p, U, OW) ==
    /\ pc[p] = "idle"
    /\ \E uri \in U, data \in Datas, meta \in Metas, ow \in OW :
         Start(p, [Call(p, "create_object", uri) EXCEPT
                      !.data = data, !.meta = meta, !.flag = ow], "c_check")
    /\ UNCHANGED <<fs, faults>>

\* lines 118-121
CreateObject(p, U, OW) ==
    /\ pc[p] = "idle"
    /\ \E uri \in U, data \in Datas, meta \in Metas, ow \in OW :
         LET c == [Call(p, "create_object", uri) EXCEPT
                      !.data = data, !.meta = meta, !.flag = ow]
         IN IF ObjectExists(fs, c.dir) /\ ~ow
            THEN EndWith(p, c, "AlreadyExists")
            ELSE Start(p, c, "c_check")
    /\ UNCHANGED <<fs, faults>>

\* faulty variant: overwrite_existing skips the non-empty directory check
CreateCheckDirUnlessOverwrite(p) ==
    /\ pc[p] = "c_check"
    /\ LET c == loc[p] IN
       IF ~c.flag /\ ~ObjectExists(fs, c.dir) /\ IsDir(fs, c.dir) /\ ListDirNonEmpty(fs, c.dir)
       THEN EndWith(p, c, "NonEmptyDirectory")
       ELSE /\ FreeUuids(c.dir, <<"data">>) # {}
            /\ LET u == Uuid4(c.dir, <<"data">>)
               IN Goto(p, EnterWrite([c EXCEPT !.tmpd = u], <<"data", u>>, c.data, "c_data", fs),
                       "w_mkdir")
    /\ UNCHANGED <<fs, faults>>

\* lines 123-130: the non-empty directory check, the temporary data name
CreateCheckDir(p) ==
    /\ pc[p] = "c_check"
    /\ LET c == loc[p] IN
       IF ~ObjectExists(fs, c.dir) /\ IsDir(fs, c.dir) /\ ListDirNonEmpty(fs, c.dir)
       THEN EndWith(p, c, "NonEmptyDirectory")
       ELSE /\ FreeUuids(c.dir, <<"data">>) # {}
            /\ LET u == Uuid4(c.dir, <<"data">>)
               IN Goto(p, EnterWrite([c EXCEPT !.tmpd = u], <<"data", u>>, c.data, "c_data", fs),
                       "w_mkdir")
    /\ UNCHANGED <<fs, faults>>

\* line 136: os.rename(tmp_data_path, data_path); it raises when the
\* temporary data is gone
CreateRename(p) ==
    /\ pc[p] = "c_rename"
    /\ LET c == loc[p] IN
       IF IsFile(fs, c.dir, <<"data", c.tmpd>>)
       THEN /\ fs' = RenameFile(fs, c.dir, <<"data", c.tmpd>>, <<"data">>)
            /\ EndWith(p, c, "ok")
       ELSE /\ fs' = fs
            /\ EndWith(p, c, "IOFailure")
    /\ UNCHANGED faults

\* line 136 raises
CreateRenameFail(p) ==
    /\ pc[p] = "c_rename"
    /\ CanFail /\ Fault
    /\ fs' = fs
    /\ EndWith(p, loc[p], "IOFailure")

\* the process of caller p stops between two statements of a call
Crash(p) ==
    /\ pc[p] # "idle"
    /\ CanFail /\ Fault
    /\ fs' = fs
    /\ EndWith(p, loc[p], "crashed")

(* ----------------------------------------------------------------------- *)
(* get_meta, get_data, get_detail, lines 219-280                           *)
(* ----------------------------------------------------------------------- *)
\* faulty variant: the keys of the prior meta win over the keys of meta
MetaReturnedPriorWins(p, c, m) ==
    IF c.op = "update_meta" THEN
        LET merged == [k \in DOMAIN m \cup DOMAIN c.meta |->
                          IF k \in DOMAIN m THEN m[k] ELSE c.meta[k]]
        IN Goto(p, EnterWrite(c, <<"meta">>, EncodeMeta(merged), "upd", fs), "w_mkdir")
    ELSE IF c.op = "get_detail" THEN Goto(p, [c EXCEPT !.rmeta = m], "gd_check")
    ELSE EndWith(p, [c EXCEPT !.rmeta = m], "ok")

\* get_meta returned m to the call with locals c (update_meta line 163,
\* get_detail line 280, or the caller)
MetaReturned(p, c, m) ==
    IF c.op = "update_meta" THEN
        \* lines 163-164: prev_meta.update(meta)
        LET merged == [k \in DOMAIN m \cup DOMAIN c.meta |->
                          IF k \in DOMAIN c.meta THEN c.meta[k] ELSE m[k]]
        IN Goto(p, EnterWrite(c, <<"meta">>, EncodeMeta(merged), "upd", fs), "w_mkdir")
    ELSE IF c.op = "get_detail" THEN Goto(p, [c EXCEPT !.rmeta = m], "gd_check")
    ELSE EndWith(p, [c EXCEPT !.rmeta = m], "ok")

\* lines 233-236, the call itself
GetMeta(p, U) ==
    /\ pc[p] = "idle"
    /\ \E uri \in U :
         LET c == Call(p, "get_meta", uri)
         IN IF ~ObjectExists(fs, c.dir) THEN EndWith(p, c, "NotFound")
            ELSE Start(p, c, "gm_read")
    /\ UNCHANGED <<fs, faults>>

\* lines 233-236, called from update_meta (line 162) or get_detail (line 280)
GetMetaCheck(p) ==
    /\ pc[p] = "gm_check"
    /\ IF ~ObjectExists(fs, loc[p].dir) THEN EndWith(p, loc[p], "NotFound")
       ELSE Goto(p, loc[p], "gm_read")
    /\ UNCHANGED <<fs, faults>>

\* line 238: _decode_meta(_read(meta))
GetMetaRead(p) ==
    /\ pc[p] = "gm_read"
    /\ LET c == loc[p]
           r == ReadFile(fs, c.dir, <<"meta">>)
           m == DecodeMeta(r.val)
       IN IF ~r.ok THEN EndWith(p, c, "IOFailure")
          ELSE IF ~m.ok THEN EndWith(p, c, "DecodeError")
          ELSE MetaReturned(p, c, m.val)
    /\ UNCHANGED <<fs, faults>>

\* lines 254-257, the call itself
GetData(p, U) ==
    /\ pc[p] = "idle"
    /\ \E uri \in U :
         LET c == Call(p, "get_data", uri)
         IN IF ~ObjectExists(fs, c.dir) THEN EndWith(p, c, "NotFound")
            ELSE Start(p, c, "gd_read")
    /\ UNCHANGED <<fs, faults>>

\* lines 254-257, called from get_detail (line 280)
GetDataCheck(p) ==
    /\ pc[p] = "gd_check"
    /\ IF ~ObjectExists(fs, loc[p].dir) THEN EndWith(p, loc[p], "NotFound")
       ELSE Goto(p, loc[p], "gd_read")
    /\ UNCHANGED <<fs, faults>>

\* line 259: _read(data)
GetDataRead(p) ==
    /\ pc[p] = "gd_read"
    /\ LET c == loc[p]
           r == ReadFile(fs, c.dir, <<"data">>)
       IN IF ~r.ok THEN EndWith(p, c, "IOFailure")
          ELSE EndWith(p, [c EXCEPT !.rdata = r.val], "ok")
    /\ UNCHANGED <<fs, faults>>

\* lines 275-278
GetDetail(p, U) ==
    /\ pc[p] = "idle"
    /\ \E uri \in U :
         LET c == Call(p, "get_detail", uri)
         IN IF ~ObjectExists(fs, c.dir) THEN EndWith(p, c, "NotFound")
            ELSE Start(p, c, "gm_check")
    /\ UNCHANGED <<fs, faults>>

(* ----------------------------------------------------------------------- *)
(* update_meta, update_data, lines 140-184                                 *)
(* ----------------------------------------------------------------------- *)
\* lines 154-160
UpdateMeta(p, U, M, R) ==
    /\ pc[p] = "idle"
    /\ \E uri \in U, meta \in M, replace \in R :
         LET c == [Call(p, "update_meta", uri) EXCEPT !.meta = meta, !.flag = replace]
         IN IF ~ObjectExists(fs, c.dir) THEN EndWith(p, c, "NotFound")
            ELSE IF replace
            THEN Start(p, EnterWrite(c, <<"meta">>, EncodeMeta(meta), "upd", fs), "w_mkdir")
            ELSE Start(p, c, "gm_check")
    /\ UNCHANGED <<fs, faults>>

\* lines 179-184
UpdateData(p, U) ==
    /\ pc[p] = "idle"
    /\ \E uri \in U, data \in Datas :
         LET c == [Call(p, "update_data", uri) EXCEPT !.data = data]
         IN IF ~ObjectExists(fs, c.dir) THEN EndWith(p, c, "NotFound")
            ELSE Start(p, EnterWrite(c, <<"data">>, data, "upd", fs), "w_mkdir")
    /\ UNCHANGED <<fs, faults>>

(* ----------------------------------------------------------------------- *)
(* list_objects, lines 186-217                                             *)
(* ----------------------------------------------------------------------- *)
\* os.scandir(d): the entries of d, a sub-directory as [d |-> its path] and
\* a file as [n |-> its name]
ScanDir(f, d) ==
    {[d |-> c, n |-> <<>>] : c \in SubDirs(f, d)}
    \cup {[d |-> <<>>, n |-> n] : n \in DOMAIN f[d].files}

\* e.name of a sub-directory entry c of directory d
EntryName(d, c) == SubSeq(c, Len(d) + 2, Len(c))

\* lines 201-210
ListObjects(p, U, T) ==
    /\ pc[p] = "idle"
    /\ \E path \in U, tag \in T :
         LET c == [Call(p, "list_objects", path) EXCEPT !.tag = tag]
         IN IF ~IsDir(fs, c.dir) THEN EndWith(p, c, "InvalidPath")
            ELSE Start(p, [c EXCEPT !.ents = ScanDir(fs, c.dir)], "l_entry")
    /\ UNCHANGED <<fs, faults>>

\* faulty variant: every sub-directory without the tag is listed
ListEntryAnyDir(p) ==
    /\ pc[p] = "l_entry"
    /\ \E e \in loc[p].ents :
         LET c == loc[p]
             listed == /\ e.d # <<>>
                       /\ (c.tag = NoTag \/ ~PathExists(fs, e.d, c.tag))
             acc == IF listed THEN c.acc \cup {PathJoin(c.uri, EntryName(c.dir, e.d))}
                    ELSE c.acc
         IN Goto(p, [c EXCEPT !.ents = @ \ {e}, !.acc = acc], "l_entry")
    /\ UNCHANGED <<fs, faults>>

\* lines 211-216, one entry of the scan
ListEntry(p) ==
    /\ pc[p] = "l_entry"
    /\ \E e \in loc[p].ents :
         LET c == loc[p]
             listed == /\ e.d # <<>>
                       /\ ObjectExists(fs, e.d)
                       /\ (c.tag = NoTag \/ ~PathExists(fs, e.d, c.tag))
             acc == IF listed THEN c.acc \cup {PathJoin(c.uri, EntryName(c.dir, e.d))}
                    ELSE c.acc
         IN Goto(p, [c EXCEPT !.ents = @ \ {e}, !.acc = acc], "l_entry")
    /\ UNCHANGED <<fs, faults>>

\* line 217
ListReturn(p) ==
    /\ pc[p] = "l_entry"
    /\ loc[p].ents = {}
    /\ EndWith(p, loc[p], "ok")
    /\ UNCHANGED <<fs, faults>>

(* ----------------------------------------------------------------------- *)
(* delete_object, lines 282-300. shutil.rmtree scans a directory, removes  *)
(* its entries one by one (a sub-directory: recursively), then removes the *)
(* directory. stack holds the directories being removed, innermost last.   *)
(* ----------------------------------------------------------------------- *)
\* lines 293-296
DeleteObject(p, U) ==
    /\ pc[p] = "idle"
    /\ \E uri \in U :
         LET c == Call(p, "delete_object", uri)
         IN IF ~ObjectExists(fs, c.dir) THEN EndWith(p, c, "NotFound")
            ELSE Start(p, c, "rm_scan")
    /\ UNCHANGED <<fs, faults>>

\* line 298, rmtree: the scan of the top directory
RmScan(p) ==
    /\ pc[p] = "rm_scan"
    /\ LET c == loc[p] IN
       IF ~IsDir(fs, c.dir) THEN EndWith(p, c, "IOFailure")
       ELSE Goto(p, [c EXCEPT !.stack = <<[dir |-> c.dir, ents |-> ScanDir(fs, c.dir)]>>], "rm")
    /\ UNCHANGED <<fs, faults>>

\* rmtree: os.unlink of one file entry
RmUnlink(p) ==
    /\ pc[p] = "rm"
    /\ LET c == loc[p]
           top == c.stack[Len(c.stack)]
       IN \E e \in top.ents :
            /\ e.n # <<>>
            /\ IF IsFile(fs, top.dir, e.n)
               THEN /\ fs' = RemoveFile(fs, top.dir, e.n)
                    /\ Goto(p, [c EXCEPT !.stack[Len(c.stack)].ents = @ \ {e}], "rm")
               ELSE /\ fs' = fs
                    /\ EndWith(p, c, "IOFailure")
    /\ UNCHANGED faults

\* rmtree: the recursion into one sub-directory entry
RmEnter(p) ==
    /\ pc[p] = "rm"
    /\ LET c == loc[p]
           top == c.stack[Len(c.stack)]
       IN \E e \in top.ents :
            /\ e.d # <<>>
            /\ IF IsDir(fs, e.d)
               THEN Goto(p, [c EXCEPT !.stack =
                                Append([@ EXCEPT ![Len(@)].ents = top.ents \ {e}],
                                       [dir |-> e.d, ents |-> ScanDir(fs, e.d)])], "rm")
               ELSE EndWith(p, c, "IOFailure")
    /\ UNCHANGED <<fs, faults>>

\* faulty variant: the directory of the object is emptied and kept
RmRmdirKeepTop(p) ==
    /\ pc[p] = "rm"
    /\ LET c == loc[p]
           top == c.stack[Len(c.stack)]
       IN /\ top.ents = {}
          /\ IF ~IsDir(fs, top.dir) \/ ListDirNonEmpty(fs, top.dir)
             THEN /\ fs' = fs
                  /\ EndWith(p, c, "IOFailure")
             ELSE IF Len(c.stack) = 1 THEN fs' = fs /\ EndWith(p, c, "ok")
             ELSE /\ fs' = [fs EXCEPT ![top.dir].isdir = FALSE]
                  /\ Goto(p, [c EXCEPT !.stack = SubSeq(@, 1, Len(@) - 1)], "rm")
    /\ UNCHANGED faults

\* rmtree: os.rmdir of a directory whose entries are removed; it raises
\* when the directory is not empty
RmRmdir(p) ==
    /\ pc[p] = "rm"
    /\ LET c == loc[p]
           top == c.stack[Len(c.stack)]
       IN /\ top.ents = {}
          /\ IF ~IsDir(fs, top.dir) \/ ListDirNonEmpty(fs, top.dir)
             THEN /\ fs' = fs
                  /\ EndWith(p, c, "IOFailure")
             ELSE /\ fs' = [fs EXCEPT ![top.dir].isdir = FALSE]
                  /\ IF Len(c.stack) = 1 THEN EndWith(p, c, "ok")
                     ELSE Goto(p, [c EXCEPT !.stack = SubSeq(@, 1, Len(@) - 1)], "rm")
    /\ UNCHANGED faults

\* rmtree raises at one of its filesystem calls
RmFail(p) ==
    /\ pc[p] \in {"rm_scan", "rm"}
    /\ CanFail /\ Fault
    /\ fs' = fs
    /\ EndWith(p, loc[p], "IOFailure")

(* ----------------------------------------------------------------------- *)
(* tag_object, lines 302-316                                               *)
(* ----------------------------------------------------------------------- *)
\* lines 312-314: open(mark_file, "w") creates or truncates the file
TagObject(p, U, T) ==
    /\ pc[p] = "idle"
    /\ \E uri \in U, tag \in T, data \in TagDatas :
         LET c == [Call(p, "tag_object", uri) EXCEPT !.tag = tag, !.data = data]
         IN IF ~IsDir(fs, c.dir)
            THEN fs' = fs /\ EndWith(p, c, "IOFailure")
            ELSE /\ fs' = PutFile(fs, c.dir, tag, <<>>)
                 /\ IF data = <<>> THEN EndWith(p, c, "ok") ELSE Start(p, c, "t_write")
    /\ UNCHANGED faults

\* lines 315-316: f.write(data)
TagWrite(p) ==
    /\ pc[p] = "t_write"
    /\ fs' = IF IsFile(fs, loc[p].dir, loc[p].tag)
             THEN PutFile(fs, loc[p].dir, loc[p].tag, loc[p].data) ELSE fs
    /\ EndWith(p, loc[p], "ok")
    /\ UNCHANGED faults

(* ----------------------------------------------------------------------- *)
(* nvflare/app_common/shareablegenerators/xgb_model_shareable_generator.py *)
(* ----------------------------------------------------------------------- *)
\* "not v" of Python, for the values of the model
Truthy(v) == v.type # "None"

\* int(s) and str(n) of Python on the decimal strings the model's counters are
DigitChars == <<"0", "1", "2", "3", "4", "5", "6", "7", "8", "9">>
DigitVal(c) == (CHOOSE i \in 1..10 : DigitChars[i] = c) - 1

RECURSIVE IntOf(_)
IntOf(s) ==
    IF s = <<>> THEN 0
    ELSE IntOf(SubSeq(s, 1, Len(s) - 1)) * 10 + DigitVal(s[Len(s)])

RECURSIVE StrOf(_)
StrOf(n) ==
    IF n < 10 THEN <<DigitChars[n + 1]>>
    ELSE StrOf(n \div 10) \o <<DigitChars[(n % 10) + 1]>>

\* an XGBoost model as a JSON dictionary: the counters are strings, the id
\* of a tree is a number
Model(best_iteration, best_ntree_limit, num_trees, trees) ==
    [type |-> "model", best_iteration |-> best_iteration,
     best_ntree_limit |-> best_ntree_limit, num_trees |-> num_trees,
     num_parallel_tree |-> "n", trees |-> trees,
     tree_info |-> [i \in 1..Len(trees) |-> 0]]

\* the model of one tree that a client sends
Update(client) == Model(<<"0">>, <<"1">>, <<"1">>, <<[id |-> 0, from |-> client]>>)

\* update_model that numbers the appended tree from one
UpdateModelOneBased(prev_model, model_update) ==
    IF ~Truthy(prev_model) THEN [model_update EXCEPT !.num_parallel_tree = "1"]
    ELSE [prev_model EXCEPT
            !.best_iteration = StrOf(IntOf(@) + 1),
            !.best_ntree_limit = StrOf(IntOf(@) + 1),
            !.num_trees = StrOf(IntOf(@) + 1),
            !.trees = Append(@, [model_update.trees[1]
                                    EXCEPT !.id = IntOf(prev_model.num_trees) + 1]),
            !.tree_info = Append(@, 0)]

\* update_model, lines 25-41
UpdateModel(prev_model, model_update) ==
    IF ~Truthy(prev_model) THEN [model_update EXCEPT !.num_parallel_tree = "1"]
    ELSE [prev_model EXCEPT
            !.best_iteration = StrOf(IntOf(@) + 1),
            !.best_ntree_limit = StrOf(IntOf(@) + 1),
            !.num_trees = StrOf(IntOf(@) + 1),
            !.trees = Append(@, [model_update.trees[1]
                                    EXCEPT !.id = IntOf(prev_model.num_trees)]),
            !.tree_info = Append(@, 0)]

RECURSIVE UpdateAll(_, _)
\* lines 115-116: for update in model_data_dict: model = update_model(model, update)
UpdateAll(model, updates) ==
    IF updates = <<>> THEN model
    ELSE UpdateAll(UpdateModel(model, Head(updates)), Tail(updates))

\* a serialized model: bytes that are not a dict
Bytes(x) == [type |-> "bytes", of |-> x]
OpaqueModel == [type |-> "model", num_trees |-> <<"0">>]

ModelLearnable(weights) == [type |-> "ModelLearnable", weights |-> weights]

\* the data of an XGB_MODEL DXO: the keys model_data and model_data_dict,
\* NoneVal and the empty sequence for a key that is not there
NoData == [model_data |-> NoneVal, model_data_dict |-> <<>>]
DXO(data_kind, data) == [type |-> "DXO", data_kind |-> data_kind, data |-> data]

\* DXO.to_shareable: a Shareable with the DXO as content; it has headers,
\* so it is never empty
ToShareable(dxo) == [type |-> "Shareable", dxo |-> dxo]
\* model_learnable_to_dxo: a WEIGHTS DXO of the learnable
ModelLearnableToDxo(ml) ==
    DXO("WEIGHTS", [model_data |-> ml.weights, model_data_dict |-> <<>>])

\* the learnables learnable_to_shareable is called with
Learnables ==
    {ModelLearnable(NoneVal), ModelLearnable(Update(1)), ModelLearnable(Bytes(OpaqueModel))}

\* what shareable_to_learnable is called with: something that is no
\* Shareable, a DXO of another kind, and XGB_MODEL DXOs without data, with a
\* serialized model (cyclic mode) and with the updates of the clients
\* (bagging mode; the last one without model_data)
Shareables ==
    {[type |-> "dict"], ToShareable(DXO("WEIGHTS", NoData)), ToShareable(DXO("XGB_MODEL", NoData))}
    \cup {ToShareable(DXO("XGB_MODEL", [model_data |-> Bytes(OpaqueModel), model_data_dict |-> u])) :
             u \in { <<>>, <<Update(1)>>, <<Update(2), Update(1)>> }}
    \cup {ToShareable(DXO("XGB_MODEL", [model_data |-> NoneVal, model_data_dict |-> <<Update(2)>>]))}

\* the call with argument input ended: outcome, and what it returned
GenReturn(g, op, input, outcome, ret) ==
    gen' = [g EXCEPT !.op = op, !.input = input, !.outcome = outcome, !.ret = ret,
                     !.before = gen.shareable]

\* the workflow sets the GLOBAL_MODEL property of the context (line 100 reads it)
SetGlobalModel ==
    /\ \E m \in {NoneVal, ModelLearnable(NoneVal)} :
         m # gen.ctx /\ gen' = [gen EXCEPT !.ctx = m]
    /\ UNCHANGED <<storeVars, arg, res, run>>

\* faulty variant: the saved shareable is not looked at
LearnableToShareableAlwaysBuilds ==
    /\ \E ml \in Learnables :
         LET model == ml.weights
             serialized == IF model.type = "model" THEN Bytes(model) ELSE model
             dxo == IF Truthy(model)
                    THEN DXO("XGB_MODEL", [model_data |-> serialized, model_data_dict |-> <<>>])
                    ELSE ModelLearnableToDxo(ml)
         IN GenReturn(gen, "learnable_to_shareable", ml, "ok", ToShareable(dxo))
    /\ UNCHANGED <<storeVars, arg, res, run>>

\* learnable_to_shareable, lines 49-79
LearnableToShareable ==
    /\ \E ml \in Learnables :
         LET model == ml.weights
             serialized == IF model.type = "model" THEN Bytes(model) ELSE model
             dxo == IF Truthy(model)
                    THEN DXO("XGB_MODEL", [model_data |-> serialized, model_data_dict |-> <<>>])
                    ELSE ModelLearnableToDxo(ml)
         IN IF ~Truthy(gen.shareable)
            THEN GenReturn(gen, "learnable_to_shareable", ml, "ok", ToShareable(dxo))
            ELSE GenReturn(gen, "learnable_to_shareable", ml, "ok", gen.shareable)
    /\ UNCHANGED <<storeVars, arg, res, run>>

\* the trees a model has, to keep the model within MaxTrees
NumTrees(model) == IF model.type = "model" THEN IntOf(model.num_trees) ELSE 0

\* shareable_to_learnable, lines 81-127
ShareableToLearnable ==
    /\ \E sh \in Shareables :
         LET op == "shareable_to_learnable"
             base_model == gen.ctx
         IN
         IF sh.type # "Shareable" THEN GenReturn(gen, op, sh, "TypeError", NoneVal)
         ELSE IF ~Truthy(base_model) THEN GenReturn(gen, op, sh, "panic", base_model)
         ELSE IF sh.dxo.data_kind # "XGB_MODEL" THEN GenReturn(gen, op, sh, "ValueError", NoneVal)
         ELSE
           LET model_update == sh.dxo.data
               old == base_model.weights
               saved(dxo, weights) ==
                   LET g == [gen EXCEPT !.shareable = ToShareable(dxo),
                                        !.saved = ToShareable(dxo),
                                        !.ctx = ModelLearnable(weights)]
                   IN GenReturn(g, op, sh, "ok", g.ctx)
           IN
           IF model_update = NoData THEN saved(sh.dxo, old)
           ELSE IF model_update.model_data_dict # <<>> THEN
               \* bagging mode
               /\ NumTrees(old) + Len(model_update.model_data_dict) <= MaxTrees
               /\ IF old.type = "bytes"
                  THEN GenReturn(gen, op, sh, "TypeError", NoneVal)
                  ELSE LET model == UpdateAll(old, model_update.model_data_dict) IN
                       IF model_update.model_data = NoneVal
                       THEN \* line 118 raises; a model that was there is already changed
                            GenReturn([gen EXCEPT !.ctx = IF Truthy(old) THEN ModelLearnable(model)
                                                          ELSE base_model],
                                      op, sh, "KeyError", NoneVal)
                       ELSE saved(DXO("XGB_MODEL", [model_data |-> model_update.model_data,
                                                    model_data_dict |-> <<>>]), model)
           ELSE \* cyclic mode
               saved(sh.dxo, model_update.model_data)
    /\ UNCHANGED <<storeVars, arg, res, run>>

\* one generator, called again and again, in a context whose global model
\* the workflow sets
NextGen == SetGlobalModel \/ LearnableToShareable \/ ShareableToLearnable

SpecGen == Init /\ [][NextGen]_vars

(* ----------------------------------------------------------------------- *)
(* nvflare/private/fed/app/server/runner_process.py                        *)
(* ----------------------------------------------------------------------- *)
\* int(s) of Python raises ValueError on a string that is not a number
IsInt(s) == s # <<>> /\ \A i \in 1..Len(s) : s[i] \in Digits

\* --port and --conn of the command line: a number, or not
PortArgs == {<<"8">>, <<"x">>}

\* what a call into the deployer, the server or the command agent raises
Excs == {"ConfigError", "Exception"}

\* the process at line 62 (command_agent = None), its arguments parsed
NewRun(port, conn, snapshot) ==
    [pc |-> "l64", port |-> port, conn |-> conn, snapshot_arg |-> snapshot,
     exc |-> "none", deployer |-> "None", server |-> "None", engine |-> "None",
     command_agent |-> "None", agent_started |-> FALSE, agent_shutdown |-> FALSE,
     snapshot |-> "None", app |-> "not called", start_run |-> "none",
     server_status |-> "none", engine_status |-> "none", stop_training |-> FALSE,
     out |-> "none"]

InitRunner ==
    /\ StoreInit(EmptyStore)
    /\ arg = NoneVal /\ res = NoneVal
    /\ gen = NewGen
    /\ run \in {NewRun(port, conn, snapshot) :
                   port \in PortArgs, conn \in PortArgs, snapshot \in BOOLEAN}

\* the process goes on to line l, the fields of r set
RunTo(r, l) ==
    /\ run' = [r EXCEPT !.pc = l]
    /\ UNCHANGED <<storeVars, arg, res, gen>>

\* a statement raises e; the handler of the enclosing try is at line l
RunRaise(e, l) == RunTo([run EXCEPT !.exc = e], l)

\* lines 64-85: the configuration of the server starter and of the log
Configure ==
    /\ run.pc = "l64"
    /\ \/ RunTo(run, "l87")
       \/ \E e \in Excs : RunRaise(e, "l108")

\* lines 87-88
GetDeployer ==
    /\ run.pc = "l87"
    /\ RunTo([run EXCEPT !.deployer = "open"], "l92")

\* line 92
CreateFlServer ==
    /\ run.pc = "l92"
    /\ \/ \E engine \in {"ServerEngine", "other"} :
            RunTo([run EXCEPT !.server = "created", !.engine = engine], "l94")
       \/ \E e \in Excs : RunRaise(e, "l105")

\* line 94
NewCommandAgent ==
    /\ run.pc = "l94"
    /\ IF IsInt(run.port)
       THEN RunTo([run EXCEPT !.command_agent = "ServerCommandAgent"], "l95")
       ELSE RunRaise("ValueError", "l105")

\* line 95
StartCommandAgent ==
    /\ run.pc = "l95"
    /\ \/ RunTo([run EXCEPT !.agent_started = TRUE], "l97")
       \/ \E e \in Excs : RunRaise(e, "l105")

\* lines 97-101
RetrieveSnapshot ==
    /\ run.pc = "l97"
    /\ IF ~run.snapshot_arg THEN RunTo(run, "l103")
       ELSE \/ \E snapshot \in {"None", "snapshot"} :
                 RunTo([run EXCEPT !.snapshot = snapshot], "l103")
            \/ \E e \in Excs : RunRaise(e, "l105")

\* line 103 and, in start_server_app, lines 117-124
AppConfigure ==
    /\ run.pc = "l103"
    /\ LET r == [run EXCEPT !.app = "entered"] IN
       \/ RunTo(r, "l126")
       \/ \E e \in Excs : RunTo([r EXCEPT !.exc = e], "l131")

\* lines 126-128
CreateParentConnection ==
    /\ run.pc = "l126"
    /\ IF run.engine # "ServerEngine" THEN RunRaise("TypeError", "l131")
       ELSE IF ~IsInt(run.conn) THEN RunRaise("ValueError", "l131")
       ELSE \/ RunTo(run, "l130")
            \/ \E e \in Excs : RunRaise(e, "l131")

\* line 130
StartRun ==
    /\ run.pc = "l130"
    /\ \/ RunTo([run EXCEPT !.start_run = "returned"], "l134")
       \/ \E e \in Excs : RunTo([run EXCEPT !.start_run = "raised", !.exc = e], "l131")

\* lines 131-132: every exception is logged and dropped
AppExcept ==
    /\ run.pc = "l131"
    /\ RunTo([run EXCEPT !.exc = "none"], "l134")

\* lines 133-136, and the return to main
AppFinally ==
    /\ run.pc = "l134"
    /\ RunTo([run EXCEPT !.server_status = "STOPPED", !.engine_status = "STOPPED",
                         !.stop_training = TRUE, !.app = "returned"], "l105")

\* line 105: command_agent is still None when line 92 or line 94 raised, and
\* None has no shutdown; the AttributeError takes the place of the exception
\* that was being handled and line 106 is skipped
ShutdownCommandAgent ==
    /\ run.pc = "l105"
    /\ IF run.command_agent = "None" THEN RunRaise("AttributeError", "l108")
       ELSE RunTo([run EXCEPT !.agent_shutdown = TRUE], "l106")

\* line 106
CloseDeployer ==
    /\ run.pc = "l106"
    /\ RunTo([run EXCEPT !.deployer = "closed"], "l108")

\* lines 108-111: a ConfigError is printed, any other exception ends main
MainExcept ==
    /\ run.pc = "l108"
    /\ RunTo([run EXCEPT !.exc = "none",
                         !.out = IF run.exc \in {"none", "ConfigError"}
                                 THEN "returned" ELSE run.exc], "done")

NextRunner ==
    \/ Configure \/ GetDeployer \/ CreateFlServer \/ NewCommandAgent
    \/ StartCommandAgent \/ RetrieveSnapshot
    \/ AppConfigure \/ CreateParentConnection \/ StartRun \/ AppExcept \/ AppFinally
    \/ ShutdownCommandAgent \/ CloseDeployer \/ MainExcept

SpecRunner == InitRunner /\ [][NextRunner]_vars

(* ----------------------------------------------------------------------- *)
(* Specifications                                                          *)
(* ----------------------------------------------------------------------- *)
WriteStep(p) ==
    \/ WMkdir(p) \/ WOpen(p) \/ WWrite(p) \/ WRename(p)

CreateStep(p) ==
    \/ CreateCheckDir(p) \/ CreateRename(p)

ReadStep(p) ==
    \/ GetMetaCheck(p) \/ GetMetaRead(p) \/ GetDataCheck(p) \/ GetDataRead(p)
    \/ ListEntry(p) \/ ListReturn(p)

\* one caller of the object at UriP, with crashes and I/O failures
Next ==
    \E p \in {Writer} :
        \/ CreateObject(p, {UriP}, BOOLEAN) \/ CreateStep(p) \/ WriteStep(p)
        \/ UpdateMeta(p, {UriP}, Metas, BOOLEAN) \/ UpdateData(p, {UriP})
        \/ GetMeta(p, {UriP}) \/ GetData(p, {UriP}) \/ GetDetail(p, {UriP})
        \/ GetMetaCheck(p) \/ GetMetaRead(p) \/ GetDataCheck(p) \/ GetDataRead(p)
        \/ DeleteObject(p, {UriP}) \/ RmScan(p) \/ RmUnlink(p) \/ RmRmdir(p)
        \/ WFail(p) \/ WRenameFail(p) \/ CreateRenameFail(p) \/ RmFail(p)
        \/ Crash(p)

Spec == Init /\ [][Next]_vars

\* the URIs that hold no object now
Absent(U) == {u \in U : ~ObjectExists(fs, ObjectPath(u))}

\* one caller creates the object at UriP, which is not there before, while
\* the other callers read it and list the root; no crash, no I/O failure
NextRead ==
    \/ \E p \in {Writer} :
        \/ CreateObject(p, Absent({UriP}), BOOLEAN) \/ CreateStep(p) \/ WriteStep(p)
    \/ \E p \in Readers :
        \/ GetMeta(p, {UriP}) \/ GetData(p, {UriP}) \/ GetDetail(p, {UriP})
        \/ ListObjects(p, {<<"/">>}, {NoTag}) \/ ReadStep(p)

SpecRead == Init /\ [][NextRead]_vars

\* one caller of the objects at UriP and, nested in it, at UriPX: it creates,
\* tags, lists and deletes, and may be stopped in the middle of a delete,
\* which leaves a directory with a part of an object
NextTree ==
    \E p \in {Writer} :
        \/ CreateObject(p, Uris, {FALSE}) \/ CreateStep(p) \/ WriteStep(p)
        \/ TagObject(p, Uris, TagNames) \/ TagWrite(p)
        \/ ListObjects(p, ListPaths, TagNames \cup {NoTag, <<"x">>})
        \/ ListEntry(p) \/ ListReturn(p)
        \/ DeleteObject(p, Uris)
        \/ RmScan(p) \/ RmUnlink(p) \/ RmEnter(p) \/ RmRmdir(p)
        \/ (loc[p].op = "delete_object" /\ Crash(p))

SpecTree == Init /\ [][NextTree]_vars

\* one caller tags the object at UriP, under any name, and reads it
NextTag ==
    \E p \in {Writer} :
        \/ TagObject(p, {UriP}, TagNames \cup ObjectFileNames) \/ TagWrite(p)
        \/ GetMeta(p, {UriP}) \/ GetData(p, {UriP})
        \/ GetMetaRead(p) \/ GetDataRead(p)

SpecTag == InitObj /\ [][NextTag]_vars

\* the texts of at most n characters of a path
Texts(n) == UNION {[1..k -> {"/", "p", "x"}] : k \in 0..n}

\* a storage with any URI root resolves any URI: for an operation through
\* _object_path, and for delete_object
InitPath ==
    /\ StoreInit(EmptyStore)
    /\ run = NoRun
    /\ gen = NewGen
    /\ arg \in [uri : Texts(MaxUriLen), uri_root : Texts(MaxRootLen) \ {<<>>}]
    /\ res = [object_path |-> NotYet, full_uri |-> NotYet]

ObjectPathCall ==
    /\ ~res.object_path.done
    /\ res' = [res EXCEPT
                  !.object_path = Returned(ObjectPathOf(root_dir, arg.uri_root, arg.uri))]
    /\ UNCHANGED <<storeVars, arg, gen, run>>

DeletePathCall ==
    /\ ~res.full_uri.done
    /\ res' = [res EXCEPT
                  !.full_uri = Returned(FullUriOf(root_dir, arg.uri_root, arg.uri))]
    /\ UNCHANGED <<storeVars, arg, gen, run>>

NextPath == ObjectPathCall \/ DeletePathCall

SpecPath == InitPath /\ [][NextPath]_vars

\* the codec is applied to any meta: encoded, or in the old format, and
\* decoded
InitCodec ==
    /\ StoreInit(EmptyStore)
    /\ run = NoRun
    /\ gen = NewGen
    /\ arg \in [meta : CodecMetas]
    /\ res = [direct |-> NotYet, legacy |-> NotYet]

\* what _decode_meta does with the text: the branch and the result
Decoded(text) == [text |-> text, path |-> DecodePath(text), out |-> DecodeMeta(text)]

DirectCall ==
    /\ ~res.direct.done
    /\ res' = [res EXCEPT !.direct = Returned(Decoded(EncodeMeta(arg.meta)))]
    /\ UNCHANGED <<storeVars, arg, gen, run>>

LegacyCall ==
    /\ ~res.legacy.done
    /\ res' = [res EXCEPT !.legacy = Returned(Decoded(LegacyEncode(arg.meta)))]
    /\ UNCHANGED <<storeVars, arg, gen, run>>

NextCodec == DirectCall \/ LegacyCall

SpecCodec == InitCodec /\ [][NextCodec]_vars

\* update_model is applied again and again, as the loop of lines 115-116
\* does, from no model or from a model that is there: one whose counters
\* are about to carry, and one whose num_trees is not the length of its
\* tree list
ModelB == Model(<<"8">>, <<"9">>, <<"1">>, <<[id |-> 0, from |-> 0]>>)
ModelC == Model(<<"0">>, <<"1">>, <<"9">>, <<[id |-> 0, from |-> 0]>>)
PrevModels == {NoneVal, ModelB, ModelC}

\* the updates of the clients: of one tree, or of two
Update2(client) ==
    Model(<<"1">>, <<"2">>, <<"2">>,
          <<[id |-> 0, from |-> client], [id |-> 1, from |-> client]>>)
ModelUpdates == {Update(1), Update(2), Update2(1), Update2(2)}

InitUpdateModel ==
    /\ StoreInit(EmptyStore)
    /\ run = NoRun
    /\ gen = NewGen
    /\ arg \in [prev_model : PrevModels]
    /\ res = [model |-> arg.prev_model, prev_model |-> NoneVal,
              model_update |-> NoneVal, calls |-> 0]

UpdateModelCall ==
    /\ res.calls < MaxTrees
    /\ \E model_update \in ModelUpdates :
         res' = [model |-> UpdateModel(res.model, model_update),
                 prev_model |-> res.model,
                 model_update |-> model_update,
                 calls |-> res.calls + 1]
    /\ UNCHANGED <<storeVars, arg, gen, run>>

NextUpdateModel == UpdateModelCall

SpecUpdateModel == InitUpdateModel /\ [][NextUpdateModel]_vars

\* the callers that have made no call yet
Fresh == {p \in Procs : pc[p] = "idle" /\ last[p] = NoLast}

\* every caller makes one call that rewrites the data, or the whole meta, of
\* the object at UriP while the others do; no crash, no I/O failure
NextUpd ==
    \/ \E p \in Fresh :
        \/ UpdateData(p, {UriP}) \/ UpdateMeta(p, {UriP}, Metas, {TRUE})
    \/ \E p \in Procs : WriteStep(p)

SpecUpd == InitObj /\ [][NextUpd]_vars

\* every caller makes one create_object call on UriP, where no object is,
\* while the others do; no crash, no I/O failure
NextCreate ==
    \/ \E p \in Fresh : CreateObject(p, {UriP}, BOOLEAN)
    \/ \E p \in Procs : CreateStep(p) \/ WriteStep(p)

SpecCreate == Init /\ [][NextCreate]_vars

\* every caller makes one update_meta call with replace = false on the
\* object at UriP while the others do; no crash, no I/O failure
NextMerge ==
    \/ \E p \in Fresh : UpdateMeta(p, {UriP}, Metas, {FALSE})
    \/ \E p \in Procs : GetMetaCheck(p) \/ GetMetaRead(p) \/ WriteStep(p)

SpecMerge == InitObj /\ [][NextMerge]_vars

\* one caller updates the meta of the object at UriP, call after call, and
\* reads the object; no crash, no I/O failure
NextMeta ==
    \E p \in {Writer} :
        \/ UpdateMeta(p, {UriP}, Metas \cup {MetaK}, BOOLEAN)
        \/ GetMeta(p, {UriP}) \/ GetData(p, {UriP})
        \/ GetMetaCheck(p) \/ GetMetaRead(p) \/ GetDataRead(p)
        \/ WriteStep(p)

SpecMeta == InitObj /\ [][NextMeta]_vars

TypeOK ==
    /\ faults \in 0..MaxFaults
    /\ \A p \in Procs : pc[p] = "idle" <=> loc[p] = NoCall

(* ----------------------------------------------------------------------- *)
(* Properties. In Spec one caller runs, so the state in which its call     *)
(* ended is the state the next call finds: last[Writer] tells the call     *)
(* (its arguments, the store it found as pre) and fs what it left.          *)
(* ----------------------------------------------------------------------- *)
LastW == last[Writer]
CallW == last[Writer].call

\* what get_data and get_meta of the object in directory d observe
Observed(f, d) ==
    IF ObjectExists(f, d)
    THEN [exists |-> TRUE, data |-> DataOf(f, d), meta |-> MetaOf(f, d)]
    ELSE [exists |-> FALSE, data |-> <<>>, meta |-> BadParse]

\* directory, data file and meta file are all there
AllThree(f, d) ==
    IsDir(f, d) /\ IsFile(f, d, <<"data">>) /\ IsFile(f, d, <<"meta">>)

\* the object in d holds exactly data and meta
Holds(f, d, data, meta) ==
    /\ AllThree(f, d)
    /\ DataOf(f, d) = data
    /\ MetaOf(f, d).ok
    /\ MetaOf(f, d).val = meta

\* the call that ended was stopped with a temporary file written and not
\* yet renamed: the temporary of _write, or create_object's temporary data
TempPending ==
    \/ LastW.at = "w_rename"
    \/ CallW.op = "create_object" /\ (CallW.wctx = "c_meta" \/ LastW.at = "c_rename")

\* C1: a create_object, update_data or update_meta interrupted between the
\* writing of a temporary file and its rename leaves the object as it was
\* before the call: absent, or its prior data with its prior meta.
C1_InterruptKeepsPreState ==
    (/\ LastW.outcome = "crashed"
     /\ CallW.op \in {"create_object", "update_data", "update_meta"}
     /\ TempPending)
    => Observed(fs, CallW.dir) = Observed(CallW.pre, CallW.dir)

\* C2: the create_object that follows a create_object stopped, on a URI
\* without object, between the meta commit and the data rename succeeds, leaves the object with its
\* data and meta, and no temporary file stays in the directory.
C2_NextCreateReclaims ==
    (/\ CallW.op = "create_object"
     /\ CallW.afterCrash
     /\ LastW.outcome \notin {"crashed", "IOFailure"})
    => /\ LastW.outcome = "ok"
       /\ Holds(fs, CallW.dir, CallW.data, CallW.meta)
       /\ TempFiles(fs, CallW.dir) = {}

\* C3: after create_object(uri, data, meta, overwrite_existing = false)
\* succeeded, get_data(uri) is data and get_meta(uri) is meta.
C3_CreateThenGet ==
    (CallW.op = "create_object" /\ ~CallW.flag /\ LastW.outcome = "ok")
    => Holds(fs, CallW.dir, CallW.data, CallW.meta)

C3_Witness ==
    /\ CallW.op = "create_object" /\ ~CallW.flag /\ LastW.outcome = "ok"
    /\ CallW.meta = MetaA
    /\ faults = 0

\* C4: create_object on an existing object raises AlreadyExists and changes
\* nothing when overwrite_existing is false; when it is true the call is
\* not rejected and, unless an I/O failure or a crash ends it, the object
\* then holds the new data and the new meta.
C4_OverwriteGuard ==
    (CallW.op = "create_object" /\ ObjectExists(CallW.pre, CallW.dir))
    => IF ~CallW.flag
       THEN LastW.outcome = "AlreadyExists" /\ fs = CallW.pre
       ELSE /\ LastW.outcome \in {"ok", "IOFailure", "crashed"}
            /\ LastW.outcome = "ok" => Holds(fs, CallW.dir, CallW.data, CallW.meta)

C4_Witness ==
    /\ CallW.op = "create_object" /\ CallW.flag /\ LastW.outcome = "ok"
    /\ Holds(CallW.pre, CallW.dir, DataA, MetaA)
    /\ CallW.data = DataB /\ CallW.meta = MetaB

NeedsObject ==
    {"update_meta", "update_data", "get_meta", "get_data", "get_detail", "delete_object"}

\* C5: when the directory, the data file or the meta file is missing,
\* update_meta, update_data, get_meta, get_data, get_detail and
\* delete_object raise NotFound and change nothing; when all three are
\* there none of them raises NotFound.
C5_ExistsIffAllThree ==
    CallW.op \in NeedsObject
    => IF AllThree(CallW.pre, CallW.dir)
       THEN LastW.outcome # "NotFound"
       ELSE LastW.outcome = "NotFound" /\ fs = CallW.pre

C5_Witness ==
    /\ CallW.op = "get_data" /\ LastW.outcome = "NotFound"
    /\ IsFile(fs, CallW.dir, <<"data">>)
    /\ ~IsFile(fs, CallW.dir, <<"meta">>)

WritePcs == {"w_mkdir", "w_open", "w_write", "w_rename"}

\* C6: at every step of _write the path holds what it held when _write was
\* called (or is still absent) or the whole new content; when _write
\* raises before the rename the temporary file is gone and the path holds
\* what it held.
C6_WriteIsAtomic ==
    [][pc[Writer] \in WritePcs =>
         LET c == loc[Writer]
             target == ReadFile(fs', c.dir, c.wname)
         IN /\ target \in {c.wold, [ok |-> TRUE, val |-> c.wcontent]}
            /\ (pc[Writer] # "w_rename" /\ last'[Writer].outcome = "IOFailure")
               => /\ target = c.wold
                  /\ (c.wtmp = <<>> \/ ~IsFile(fs', c.dir, c.wtmp))]_vars

C6_Witness ==
    /\ LastW.outcome = "IOFailure" /\ LastW.at = "w_write"
    /\ CallW.op = "update_data"
    /\ CallW.wold.ok /\ CallW.wold.val # CallW.wcontent

\* C7: a create_object that raises an I/O failure leaves the object as it
\* was before the call and no temporary file in the directory.
C7_FailedCreateSelfHeals ==
    (CallW.op = "create_object" /\ LastW.outcome = "IOFailure")
    => /\ Observed(fs, CallW.dir) = Observed(CallW.pre, CallW.dir)
       /\ TempFiles(fs, CallW.dir) = {}

\* the delete_object in progress, or the one that ended last
Deleting ==
    IF pc[Writer] \in {"rm_scan", "rm"} THEN loc[Writer] ELSE CallW

\* C8: during delete_object and after it, however it ends, the directory of
\* the object is gone or the object is there with everything it had.
C8_NoPartialDelete ==
    (Deleting.op = "delete_object" /\ ObjectExists(Deleting.pre, Deleting.dir))
    => \/ ~IsDir(fs, Deleting.dir)
       \/ fs = Deleting.pre

\* C9: create_object on a directory that is not empty and holds no object
\* raises NonEmptyDirectory, whatever overwrite_existing is (unless the
\* caller is stopped before the check), and changes nothing; on an absent
\* or empty directory it does not raise it.
C9_NonEmptyDirectory ==
    CallW.op = "create_object"
    => LET d == CallW.dir
           nonEmpty == IsDir(CallW.pre, d) /\ ListDirNonEmpty(CallW.pre, d)
       IN /\ (nonEmpty /\ ~AllThree(CallW.pre, d))
             => /\ LastW.outcome \in {"NonEmptyDirectory", "crashed"}
                /\ LastW.outcome = "crashed" => LastW.at = "c_check"
                /\ fs = CallW.pre
          /\ ~nonEmpty => LastW.outcome # "NonEmptyDirectory"

C9_Witness ==
    /\ CallW.op = "create_object" /\ CallW.flag
    /\ LastW.outcome = "NonEmptyDirectory"

\* the create_object of the writer: running, or ended
Creating == IF pc[Writer] = "idle" THEN CallW ELSE loc[Writer]

\* C10: while create_object runs on a URI without object, a get_meta,
\* get_data, get_detail or list_objects of another caller finds no object
\* (NotFound, not listed) or reads the whole data and the whole meta of that
\* create_object; no read fails on a half-written object.
C10_VisibleOnlyComplete ==
    /\ ObjectExists(fs, DirP) => Holds(fs, DirP, Creating.data, Creating.meta)
    /\ \A r \in Readers :
         LET c == last[r].call IN
         /\ last[r].outcome \in {"none", "ok", "NotFound", "InvalidPath"}
         /\ (last[r].outcome = "ok" /\ c.op \in {"get_meta", "get_detail"})
            => c.rmeta = Creating.meta
         /\ (last[r].outcome = "ok" /\ c.op \in {"get_data", "get_detail"})
            => c.rdata = Creating.data
         /\ (last[r].outcome = "ok" /\ c.op = "list_objects" /\ c.acc # {})
            => (c.acc = {UriP} /\ c.uri = <<"/">> /\ ObjectExists(fs, DirP))
         /\ (loc[r].op = "get_detail" /\ pc[r] \in {"gd_check", "gd_read"})
            => loc[r].rmeta = Creating.meta

\* a list_objects that scanned before the object was there and lists it
C10_Witness ==
    \E r \in Readers :
        /\ last[r].outcome = "ok" /\ last[r].call.op = "list_objects"
        /\ last[r].call.acc = {UriP}
        /\ ~ObjectExists(last[r].call.pre, DirP)

\* C12: update_meta with replace = false on an existing object leaves the
\* prior meta with every key of meta added or overridden and every other
\* key kept; with replace = true it leaves exactly meta; the data of the
\* object stays what it was.
C12_UpdateMetaMergeOrReplace ==
    (CallW.op = "update_meta" /\ LastW.outcome = "ok")
    => LET d == CallW.dir
           prior == MetaOf(CallW.pre, d).val
           now == MetaOf(fs, d)
       IN /\ ObjectExists(fs, d) /\ now.ok
          /\ IF CallW.flag THEN now.val = CallW.meta
             ELSE /\ DOMAIN now.val = DOMAIN prior \cup DOMAIN CallW.meta
                  /\ \A k \in DOMAIN now.val :
                       now.val[k] = IF k \in DOMAIN CallW.meta
                                    THEN CallW.meta[k] ELSE prior[k]
          /\ DataOf(fs, d) = DataOf(CallW.pre, d)

\* a merge that overrode the key k and kept the key a
C12_Witness ==
    /\ CallW.op = "update_meta" /\ LastW.outcome = "ok" /\ ~CallW.flag
    /\ CallW.meta = MetaK
    /\ MetaOf(CallW.pre, DirP).val = (<<"k">> :> StrVal(<<"o">>)) @@ MetaA
    /\ MetaOf(fs, DirP).val = MetaK @@ MetaA

\* the sub-directories of d that list_objects(., without_tag = tag) is to
\* return in filesystem f
Listable(f, d, tag) ==
    {c \in SubDirs(f, d) : ObjectExists(f, c) /\ (tag = NoTag \/ ~PathExists(f, c, tag))}

C14_TagLeavesContent ==
    (CallW.op = "tag_object" /\ LastW.outcome = "ok")
    => LET d == CallW.dir IN
       /\ IsFile(fs, d, CallW.tag) /\ fs[d].files[CallW.tag] = CallW.data
       /\ \A e \in Dirs : e # d => fs[e] = CallW.pre[e]
       /\ \A n \in DOMAIN CallW.pre[d].files \ {CallW.tag} :
            IsFile(fs, d, n) /\ fs[d].files[n] = CallW.pre[d].files[n]
       /\ Observed(fs, d) = Observed(CallW.pre, d)

\* C15: a delete_object that succeeded has removed the directory of the
\* object with everything in it, nested objects included, and has left
\* every directory outside of it as it was; delete_object on a URI without
\* object (so also the next delete_object) raises NotFound; create_object
\* with overwrite_existing = false on a URI whose directory is gone (so
\* also the next create_object) succeeds.
C15_DeleteRemovesSubtree ==
    /\ (CallW.op = "delete_object" /\ LastW.outcome = "ok")
       => \A d \in Dirs :
            IF InSubtree(d, CallW.dir) THEN ~IsDir(fs, d) /\ ~ObjectExists(fs, d)
            ELSE fs[d] = CallW.pre[d]
    /\ (CallW.op = "delete_object" /\ ~ObjectExists(CallW.pre, CallW.dir))
       => LastW.outcome = "NotFound" /\ fs = CallW.pre
    /\ (CallW.op = "create_object" /\ ~CallW.flag /\ ~IsDir(CallW.pre, CallW.dir))
       => LastW.outcome = "ok" /\ Holds(fs, CallW.dir, CallW.data, CallW.meta)

\* the delete of /p, tagged, with the object /p/x nested in it
C15_Witness ==
    /\ CallW.op = "delete_object" /\ LastW.outcome = "ok"
    /\ CallW.dir = DirP
    /\ IsFile(CallW.pre, DirP, <<"done">>)
    /\ ObjectExists(CallW.pre, DirPX)

\* s without the text prefix in front of it, when it starts with it
RemovePrefix(s, prefix) ==
    IF Len(s) >= Len(prefix) /\ SubSeq(s, 1, Len(prefix)) = prefix
    THEN SubSeq(s, Len(prefix) + 1, Len(s)) ELSE s

\* C16: for every URI and every URI root, the path an operation resolves
\* the URI to names the directory of the root directory joined with the URI
\* without the URI root in front of it (the whole prefix, nothing more);
\* delete_object resolves the URI to the same path.
C16_PathResolution ==
    /\ res.object_path.done
       => NormPath(res.object_path.val)
            = NormPath(PathJoin(root_dir, RemovePrefix(arg.uri, arg.uri_root)))
    /\ (res.object_path.done /\ res.full_uri.done)
       => res.full_uri = res.object_path

\* C17: for every meta m, the decoder gives m back for the encoding of m
\* and for the old string-wrapped format of m; it takes the old-format
\* branch when the text begins with a double quote, and only then.
C17_CodecRoundTrip ==
    \A r \in {res.direct, res.legacy} :
        r.done
        => /\ r.val.out.ok /\ r.val.out.val = arg.meta
           /\ r.val.path = "legacy" <=> Head(r.val.text) = DQ
           /\ r.val.path = IF r = res.legacy THEN "legacy" ELSE "direct"

\* a meta with quotes, a backslash and a boolean in its values, decoded from
\* both formats
C17_Witness ==
    /\ res.direct.done /\ res.legacy.done
    /\ arg.meta = (<<"a">> :> StrVal(<<"'", DQ>>)) @@ (<<"b">> :> StrVal(<<BS>>))
                   @@ (<<"k">> :> BoolVal(TRUE))
    /\ res.direct.val.text # res.legacy.val.text
    /\ res.direct.val.out = res.legacy.val.out

(* ----------------------------------------------------------------------- *)
(* Concurrent callers                                                      *)
(* ----------------------------------------------------------------------- *)
\* the content the update call with locals c writes to its file
UpdateContent(c) == IF c.op = "update_data" THEN c.data ELSE EncodeMeta(c.meta)

\* C11: while callers run update_data, or update_meta with replace = true,
\* on one object at the same time, the data file and the meta file are
\* always there, and a file changes only in the step that is the rename of
\* one caller, to the whole content of that caller's call: so a reader sees
\* the original content or the whole content of one write, and when all
\* calls are over the file holds the content of the last rename.
C11_LastRenameWins ==
    [][\A n \in { <<"data">>, <<"meta">> } :
         LET old == ReadFile(fs, DirP, n)
             new == ReadFile(fs', DirP, n)
         IN /\ new.ok
            /\ \/ new = old
               \/ \E p \in Procs :
                    /\ pc[p] = "w_rename" /\ pc'[p] = "idle"
                    /\ loc[p].wname = n
                    /\ new.val = UpdateContent(loc[p])]_vars

\* two update_data calls ran at the same time; the one that renamed last
\* wrote DataA
C11_Witness ==
    \E p, q \in Procs :
        /\ p # q
        /\ last[p].outcome = "ok" /\ last[q].outcome = "ok"
        /\ last[p].call.op = "update_data" /\ last[q].call.op = "update_data"
        /\ last[p].call.data = DataA /\ last[q].call.data = DataB
        /\ last[p].call.pre = ObjStore /\ last[q].call.pre = ObjStore
        /\ DataOf(fs, DirP) = DataA

\* the callers whose call is over
Done == {p \in Procs : pc[p] = "idle" /\ last[p] # NoLast}

\* every call that was made is over and succeeded
AllSucceeded ==
    /\ Done # {}
    /\ \A p \in Procs : pc[p] = "idle"
    /\ \A p \in Done : last[p].outcome = "ok"

\* C18: when create_object calls on one URI that ran at the same time are
\* all over and all succeeded, the object holds the data and the meta of
\* one of the calls, not the data of one with the meta of another.
C18_CreateIsOneCall ==
    AllSucceeded
    => \E p \in Done : Holds(fs, DirP, last[p].call.data, last[p].call.meta)

\* m with the keys of u added or overridden
MergeMeta(m, u) ==
    [k \in DOMAIN m \cup DOMAIN u |-> IF k \in DOMAIN u THEN u[k] ELSE m[k]]

\* C19: when two update_meta calls with replace = false on one object that
\* ran at the same time are both over and succeeded, the meta is the meta
\* from before them with the two updates merged in, one after the other in
\* some order; updates of different keys are both in it.
C19_NoLostUpdate ==
    \A p, q \in Done :
        (p # q /\ AllSucceeded /\ Done = {p, q})
        => LET mp == last[p].call.meta
               mq == last[q].call.meta
               now == MetaOf(fs, DirP)
           IN /\ now.ok
              /\ now.val \in {MergeMeta(MergeMeta(MetaO, mp), mq),
                              MergeMeta(MergeMeta(MetaO, mq), mp)}

(* ----------------------------------------------------------------------- *)
(* XGBModelShareableGenerator                                              *)
(* ----------------------------------------------------------------------- *)
\* the outcomes of a shareable_to_learnable that did not go through
S2LFailures == {"TypeError", "panic", "ValueError", "KeyError"}

\* C20: as long as no shareable_to_learnable went through,
\* learnable_to_shareable returns a shareable built from its argument, the
\* same for the same argument; after one went through (an XGB_MODEL DXO, a
\* global model in the context), it returns the shareable that the last
\* such call saved, whatever its argument; a shareable_to_learnable that
\* fails leaves the saved shareable as it was, and so does
\* learnable_to_shareable.
C20_SavedShareable ==
    /\ gen.op = "learnable_to_shareable"
       => /\ gen.shareable = gen.before
          /\ IF gen.saved = NoneVal
             THEN /\ gen.ret.type = "Shareable"
                  /\ gen.ret.dxo.data.model_data
                        = IF gen.input.weights.type = "model"
                          THEN Bytes(gen.input.weights) ELSE gen.input.weights
             ELSE gen.ret = gen.saved
    /\ gen.op = "shareable_to_learnable"
       => IF gen.outcome \in S2LFailures
          THEN gen.shareable = gen.before
          ELSE /\ gen.input.type = "Shareable"
               /\ gen.input.dxo.data_kind = "XGB_MODEL"
               /\ gen.shareable = gen.saved /\ gen.saved # NoneVal
               /\ gen.saved.dxo.data.model_data = gen.input.dxo.data.model_data
    /\ gen.saved = gen.shareable

\* the second call that went through saved another shareable than the
\* first; learnable_to_shareable, called with a model, returns it
C20_Witness ==
    /\ gen.op = "learnable_to_shareable"
    /\ gen.input = ModelLearnable(Update(1))
    /\ gen.ret = ToShareable(DXO("XGB_MODEL", NoData))
    /\ gen.ctx # NoneVal /\ gen.ctx.weights.type = "model" /\ gen.ctx.weights.num_trees = <<"2">>

\* the tree list of a model is as long as num_trees says; its ids count from 0
TreesMatchCount(model) == Len(model.trees) = IntOf(model.num_trees)
TreeIdsInOrder(model) == \A i \in 1..Len(model.trees) : model.trees[i].id = i - 1

\* C21: update_model on a previous model that is not empty appends one
\* tree, the first tree of the update with the previous num_trees as its id,
\* appends one entry to tree_info and adds 1 to num_trees, best_iteration and
\* best_ntree_limit; so from a model whose tree list is as long as its
\* num_trees says the list stays that long, and its ids stay 0..num_trees-1.
\* On an empty previous model it returns the update with num_parallel_tree
\* "1".
C21_UpdateModelAppendsOneTree ==
    res.calls > 0 =>
        LET prev == res.prev_model
            upd == res.model_update
            out == res.model
        IN
        /\ Truthy(prev) =>
              /\ Len(out.trees) = Len(prev.trees) + 1
              /\ SubSeq(out.trees, 1, Len(prev.trees)) = prev.trees
              /\ out.trees[Len(out.trees)].from = upd.trees[1].from
              /\ out.trees[Len(out.trees)].id = IntOf(prev.num_trees)
              /\ out.tree_info = prev.tree_info \o <<0>>
              /\ IntOf(out.num_trees) = IntOf(prev.num_trees) + 1
              /\ IntOf(out.best_iteration) = IntOf(prev.best_iteration) + 1
              /\ IntOf(out.best_ntree_limit) = IntOf(prev.best_ntree_limit) + 1
        /\ ~Truthy(prev) =>
              /\ out.num_parallel_tree = "1"
              /\ [out EXCEPT !.num_parallel_tree = upd.num_parallel_tree] = upd
        /\ (Truthy(arg.prev_model) /\ TreesMatchCount(arg.prev_model)) =>
              /\ TreesMatchCount(out)
              /\ TreeIdsInOrder(arg.prev_model) => TreeIdsInOrder(out)

\* three updates were folded into a model that was there, the counters
\* carried into a second digit, and the last update had two trees
C21_Witness ==
    /\ arg.prev_model = ModelB
    /\ res.calls = 3
    /\ res.model_update = Update2(2)
    /\ Len(res.model.trees) = 4
    /\ res.model.num_trees = <<"4">>
    /\ res.model.best_iteration = <<"1", "1">>
    /\ res.model.best_ntree_limit = <<"1", "2">>

\* C22: when main of the runner process has ended, start_server_app, if it
\* was entered, has set server.status and engine_info.status to STOPPED and
\* called stop_training, whether start_run returned or raised; and a deployer
\* that was obtained is closed, and a command agent that was started is shut
\* down, whatever raised in between.
C22_CleanupOnEveryExit ==
    run.pc = "done" =>
        /\ run.app # "not called" =>
              /\ run.app = "returned"
              /\ run.server_status = "STOPPED"
              /\ run.engine_status = "STOPPED"
              /\ run.stop_training
        /\ run.deployer # "None" =>
              /\ run.deployer = "closed"
              /\ run.agent_started => run.agent_shutdown

====
